---- MODULE Spec2Model ----
(***************************************************************************)
(* Model of the MimiSupply automated-program-repair loop:                  *)
(*   Scripts/apr/patch_applier.py  within_scope, count_change_lines,       *)
(*                                 apply_changes, rollback, main           *)
(*   Scripts/apr/run_apr.py        main (the orchestrator)                 *)
(*   Scripts/apr/reporter.py       write_report                            *)
(*   Scripts/apr/validator.py      run_tests (its pass/fail signal)        *)
(*                                                                         *)
(* A path is a sequence of one-character strings, a text is the sequence   *)
(* of its lines (what str.splitlines(True) returns), and the disk is a     *)
(* function from the paths that exist to their texts.                      *)
(*                                                                         *)
(* A run starts where run_apr.main holds the generated patch.  The build   *)
(* log and the report file are not part of the modelled disk; reports      *)
(* counts the documents written.  Errors raised by the reads and writes of *)
(* apply_changes are not modelled; the ValueError of relative_to and the   *)
(* errors rollback swallows are.                                           *)
(***************************************************************************)
EXTENDS Integers, Sequences, FiniteSets, TLC

VARIABLES
    cfg,             \* apr.config.json: file_scopes, excludes, max_change_lines
    patch,           \* patch["changes"]: the ordered change set
    dry_run,         \* args.dry_run
    fs,              \* the working tree: path -> text, for the paths that exist
    pc,              \* where the run is
    i,               \* apply_changes: index of the change the loop is at
    changes_applied, \* apply_changes: local list
    rejected,        \* apply_changes: local list
    backups,         \* apply_changes: local list (repo-relative backup paths)
    total_changed,   \* apply_changes: local counter
    applied,         \* run_apr.main: <<>> for None, <<result>> once set
    validation,      \* run_apr.main: <<>> for None, <<passed>> once set
    rolled_back,     \* result["rolled_back"]
    reports,         \* number of report documents written
    caller,          \* who called rollback: "run_apr" or "cli"
    k,               \* rollback: index of the backup the loop is at
    calls,           \* number of rollback calls started
    fsAtCall,        \* the disk when the current rollback call started
    faulted          \* rollback: loop indexes whose restore raised

vars == <<cfg, patch, dry_run, fs, pc, i, changes_applied, rejected, backups,
          total_changed, applied, validation, rolled_back, reports, caller, k,
          calls, fsAtCall, faulted>>

----------------------------------------------------------------------------
(* Bounds of the model *)

MaxChanges == 3

MaxBudget == 2

MaxRollbackCalls == 2

----------------------------------------------------------------------------
(* Paths *)

Slash == "/"

Dot == "."

PathAx == <<"A", "/", "x", ".", "s">>

PathBy == <<"B", "/", "y", ".", "s">>

PathAm == <<"A", "/", "m", ".", "s">>

PathUp == <<".", ".", "/", "e", ".", "s">>

ChangePaths == {PathAx, PathBy, PathAm, PathUp}

BackupSuffix == <<".", "a", "p", "r", ".", "b", "a", "k">>

RECURSIVE SplitPath(_, _)
\* str -> components, as pathlib parses a relative path: split on "/"
SplitPath(s, cur) ==
    IF s = <<>> THEN (IF cur = <<>> THEN <<>> ELSE <<cur>>)
    ELSE IF Head(s) = Slash
         THEN (IF cur = <<>> THEN <<>> ELSE <<cur>>) \o SplitPath(Tail(s), <<>>)
         ELSE SplitPath(Tail(s), Append(cur, Head(s)))

RECURSIVE Normalize(_, _)
\* Path.resolve() below repo_root: "." is dropped, ".." pops a component;
\* <<"escaped">> when ".." climbs above repo_root
Normalize(comps, stack) ==
    IF comps = <<>> THEN <<"inside", stack>>
    ELSE IF Head(comps) = <<Dot>> THEN Normalize(Tail(comps), stack)
    ELSE IF Head(comps) = <<Dot, Dot>>
         THEN IF stack = <<>> THEN <<"escaped">>
              ELSE Normalize(Tail(comps), SubSeq(stack, 1, Len(stack) - 1))
    ELSE Normalize(Tail(comps), Append(stack, Head(comps)))

RECURSIVE JoinPath(_)
\* as_posix(): the components joined by "/"
JoinPath(comps) ==
    IF comps = <<>> THEN <<>>
    ELSE IF Len(comps) = 1 THEN Head(comps)
    ELSE Head(comps) \o <<Slash>> \o JoinPath(Tail(comps))

Resolved(p) == Normalize(SplitPath(p, <<>>), <<>>)

\* relative_to(repo_root) raises ValueError for a path outside repo_root
OutsideRoot(p) == Resolved(p)[1] = "escaped"

Rel(p) == JoinPath(Resolved(p)[2])

\* the last component of a path
Name(p) == LET c == SplitPath(p, <<>>) IN c[Len(c)]

\* PurePath.suffix: name[i:] for i = name.rfind("."), when 0 < i < len(name)-1
Suffix(p) ==
    LET n == Name(p)
        dots == {j \in 1..Len(n) : n[j] = Dot}
    IN  IF dots = {} THEN <<>>
        ELSE LET j == CHOOSE d \in dots : \A e \in dots : e <= d
             IN  IF 1 < j /\ j < Len(n) THEN SubSeq(n, j, Len(n)) ELSE <<>>

\* PurePath.with_suffix(suffix): the old suffix, if any, replaced by suffix
WithSuffix(p, suffix) ==
    SubSeq(p, 1, Len(p) - Len(Suffix(p))) \o suffix

\* path.with_suffix(path.suffix + ".apr.bak")
BackupPath(p) == WithSuffix(p, Suffix(p) \o BackupSuffix)

\* bak.with_suffix("")
RestorePath(bak) == WithSuffix(bak, <<>>)

----------------------------------------------------------------------------
(* Scope Guard *)

RECURSIVE fnmatch(_, _)
\* fnmatch.fnmatch on POSIX for patterns made of literals, "*" and "?": the
\* whole name must match, "*" matches any run of characters ("/" included)
fnmatch(name, pat) ==
    IF pat = <<>> THEN name = <<>>
    ELSE IF Head(pat) = "*"
         THEN fnmatch(name, Tail(pat))
              \/ (name # <<>> /\ fnmatch(Tail(name), pat))
    ELSE /\ name # <<>>
         /\ (Head(pat) = "?" \/ Head(pat) = Head(name))
         /\ fnmatch(Tail(name), Tail(pat))

MatchesAny(rel, pats) == \E n \in 1..Len(pats) : fnmatch(rel, pats[n])

\* a scope guard that lets an include match win over the excludes
within_scope_include_first(rel, c) ==
    \/ c.file_scopes # <<>> /\ MatchesAny(rel, c.file_scopes)
    \/ ~MatchesAny(rel, c.excludes) /\ c.file_scopes = <<>>

within_scope(rel, c) ==
    IF MatchesAny(rel, c.excludes) THEN FALSE
    ELSE IF c.file_scopes = <<>> THEN TRUE
    ELSE MatchesAny(rel, c.file_scopes)

----------------------------------------------------------------------------
(* Diff Sizer *)

\* the blocks a[ia..ia+n-1] = b[jb..jb+n-1] inside a[alo..ahi], b[blo..bhi]
CommonBlocks(a, alo, ahi, b, blo, bhi) ==
    {t \in (alo..ahi) \X (blo..bhi) \X (1..Len(a)) :
        /\ t[1] + t[3] - 1 <= ahi
        /\ t[2] + t[3] - 1 <= bhi
        /\ \A d \in 0..(t[3] - 1) : a[t[1] + d] = b[t[2] + d]}

\* SequenceMatcher.find_longest_match: the longest block; of those the one
\* starting earliest in a; of those the one starting earliest in b
LongestMatch(a, alo, ahi, b, blo, bhi) ==
    LET S == CommonBlocks(a, alo, ahi, b, blo, bhi)
    IN  CHOOSE t \in S : \A u \in S :
            \/ u[3] < t[3]
            \/ u[3] = t[3] /\ t[1] < u[1]
            \/ u[3] = t[3] /\ t[1] = u[1] /\ t[2] <= u[2]

RECURSIVE MatchedLines(_, _, _, _, _, _)
\* SequenceMatcher.get_matching_blocks: the longest match, then the same to
\* its left and to its right; the number of lines the diff marks as equal
MatchedLines(a, alo, ahi, b, blo, bhi) ==
    IF CommonBlocks(a, alo, ahi, b, blo, bhi) = {} THEN 0
    ELSE LET t == LongestMatch(a, alo, ahi, b, blo, bhi)
         IN  t[3] + MatchedLines(a, alo, t[1] - 1, b, blo, t[2] - 1)
                  + MatchedLines(a, t[1] + t[3], ahi, b, t[2] + t[3], bhi)

\* the lines of difflib.ndiff(old, new) that start with "+" or "-": every
\* line of old and of new that is in no matching block
count_change_lines(old, new) ==
    Len(old) + Len(new) - 2 * MatchedLines(old, 1, Len(old), new, 1, Len(new))

----------------------------------------------------------------------------
(* The disk *)

exists(disk, p) == p \in DOMAIN disk

write_text(disk, p, text) ==
    [q \in DOMAIN disk \cup {p} |-> IF q = p THEN text ELSE disk[q]]

unlink(disk, p) == [q \in DOMAIN disk \ {p} |-> disk[q]]

\* the working tree before the run
InitialDisk ==
    [q \in {PathAx, PathBy} |-> IF q = PathAx THEN <<"a", "b">> ELSE <<"a">>]

----------------------------------------------------------------------------
(* Inputs *)

IncludeA == <<"A", "/", "*">>

ExcludeX == <<"*", "x", ".", "s">>

ScopeLists == {<<>>, <<IncludeA>>}

ExcludeLists == {<<>>, <<ExcludeX>>}

Configs ==
    [file_scopes : ScopeLists, excludes : ExcludeLists,
     max_change_lines : 0..MaxBudget]

\* {"path": ..., "content": ...}: A/x.s rewritten at a cost of 0 or 2 lines,
\* B/y.s at a cost of 1; the content of a change that names a missing file
\* or a path outside the repository is never read
Changes ==
    [path : {PathAx}, content : {<<"a", "b">>, <<"b", "a">>}]
        \cup [path : {PathBy}, content : {<<"b", "a">>}]
        \cup [path : {PathAm, PathUp}, content : {<<"a">>}]

ChangeSets == UNION {[1..n -> Changes] : n \in 0..MaxChanges}

----------------------------------------------------------------------------
(* patch_applier.apply_changes, one loop iteration per step *)

\* total_changed + changed > int(cfg.get("max_change_lines", 120)), with the
\* cost of the change left out of the sum
BudgetExceededIgnoringChange(total, changed, c) == total > c.max_change_lines

\* the same check with >= for >: a change that exactly fills the budget is
\* turned away
BudgetExceededAtLimit(total, changed, c) == total + changed >= c.max_change_lines

BudgetExceeded(total, changed, c) == total + changed > c.max_change_lines

\* a loop body that takes the backup before it decides
DiskAfterChangeBackupFirst(disk, path, new, accepted) ==
    IF ~exists(disk, path) THEN disk
    ELSE IF accepted
         THEN write_text(write_text(disk, BackupPath(path), disk[path]), path, new)
         ELSE write_text(disk, BackupPath(path), disk[path])

\* what one loop iteration leaves on disk: the backup of the old text and the
\* new text when the change is accepted, nothing when it is rejected
DiskAfterChange(disk, path, new, accepted) ==
    IF accepted
    THEN write_text(write_text(disk, BackupPath(path), disk[path]), path, new)
    ELSE disk

change == patch[i]

rel == Rel(change.path)

InLoop == pc = "apply" /\ i <= Len(patch)

main_vars == <<applied, validation, rolled_back, reports>>

rollback_vars == <<caller, k, calls, fsAtCall, faulted>>

input_vars == <<cfg, patch, dry_run>>

\* relative_to raises ValueError: nothing catches it, the process ends
ApplyOutsideRoot ==
    /\ InLoop
    /\ OutsideRoot(change.path)
    /\ pc' = "crashed"
    /\ UNCHANGED <<fs, i, changes_applied, rejected, backups, total_changed>>
    /\ UNCHANGED <<input_vars, main_vars, rollback_vars>>

Reject(reason) ==
    /\ rejected' = Append(rejected, [path |-> rel, reason |-> reason])
    /\ fs' = DiskAfterChange(fs, rel, change.content, FALSE)
    /\ i' = i + 1
    /\ UNCHANGED <<pc, changes_applied, backups, total_changed>>
    /\ UNCHANGED <<input_vars, main_vars, rollback_vars>>

ApplyRejectScope ==
    /\ InLoop
    /\ ~OutsideRoot(change.path)
    /\ ~within_scope(rel, cfg)
    /\ Reject("out_of_scope")

ApplyRejectNotFound ==
    /\ InLoop
    /\ ~OutsideRoot(change.path)
    /\ within_scope(rel, cfg)
    /\ ~exists(fs, rel)
    /\ Reject("not_found")

ApplyRejectBudget ==
    /\ InLoop
    /\ ~OutsideRoot(change.path)
    /\ within_scope(rel, cfg)
    /\ exists(fs, rel)
    /\ BudgetExceeded(total_changed, count_change_lines(fs[rel], change.content), cfg)
    /\ Reject("max_change_lines_exceeded")

ApplyAccept ==
    /\ InLoop
    /\ ~OutsideRoot(change.path)
    /\ within_scope(rel, cfg)
    /\ exists(fs, rel)
    /\ LET changed == count_change_lines(fs[rel], change.content)
       IN  /\ ~BudgetExceeded(total_changed, changed, cfg)
           /\ backups' = Append(backups, BackupPath(rel))
           /\ fs' = DiskAfterChange(fs, rel, change.content, TRUE)
           /\ total_changed' = total_changed + changed
           /\ changes_applied' =
                  Append(changes_applied, [path |-> rel, changed_lines |-> changed])
    /\ i' = i + 1
    /\ UNCHANGED <<pc, rejected>>
    /\ UNCHANGED <<input_vars, main_vars, rollback_vars>>

\* the loop is over: the result goes back to run_apr.main, which validates
ApplyReturn ==
    /\ pc = "apply"
    /\ i > Len(patch)
    /\ applied' = <<[applied |-> changes_applied, rejected |-> rejected,
                     total_changed |-> total_changed, backups |-> backups]>>
    /\ pc' = "validate"
    /\ UNCHANGED <<fs, i, changes_applied, rejected, backups, total_changed>>
    /\ UNCHANGED <<input_vars, validation, rolled_back, reports, rollback_vars>>

----------------------------------------------------------------------------
(* patch_applier.rollback, one loop iteration per step *)

result_backups == applied[1].backups

InRollback == pc = "rollback" /\ k <= Len(result_backups)

bak == result_backups[k]

apply_vars == <<i, changes_applied, rejected, backups, total_changed>>

\* a restore that opens the original for writing before it looks for the backup
RollbackOneTruncating(disk, b) ==
    IF exists(disk, b)
    THEN unlink(write_text(disk, RestorePath(b), disk[b]), b)
    ELSE write_text(disk, RestorePath(b), <<>>)

\* one loop iteration when nothing raises: the backup's text is written to
\* bak.with_suffix("") and the backup is deleted; an absent backup is skipped
RollbackOne(disk, b) ==
    IF exists(disk, b)
    THEN unlink(write_text(disk, RestorePath(b), disk[b]), b)
    ELSE disk

RollbackCall(who) ==
    /\ caller' = who
    /\ k' = 1
    /\ calls' = calls + 1
    /\ fsAtCall' = fs
    /\ faulted' = {}
    /\ pc' = "rollback"

RollbackStep(disk, raised) ==
    /\ fs' = disk
    /\ k' = k + 1
    /\ faulted' = IF raised THEN faulted \cup {k} ELSE faulted
    /\ UNCHANGED <<pc, caller, calls, fsAtCall>>
    /\ UNCHANGED <<input_vars, main_vars, apply_vars>>

RollbackSkip ==
    /\ InRollback
    /\ ~exists(fs, bak)
    /\ RollbackStep(RollbackOne(fs, bak), FALSE)

RollbackRestore ==
    /\ InRollback
    /\ exists(fs, bak)
    /\ RollbackStep(RollbackOne(fs, bak), FALSE)

\* bak.read_text raises, or orig cannot be opened for writing: nothing is
\* written; caught by "except Exception: pass"
RollbackReadFails ==
    /\ InRollback
    /\ exists(fs, bak)
    /\ RollbackStep(fs, TRUE)

\* orig.write_text raises after open(orig, "w") created or truncated the
\* file: caught
RollbackWriteFails ==
    /\ InRollback
    /\ exists(fs, bak)
    /\ RollbackStep(write_text(fs, RestorePath(bak), <<>>), TRUE)

\* bak.unlink raises after the text was written: caught
RollbackUnlinkFails ==
    /\ InRollback
    /\ exists(fs, bak)
    /\ RollbackStep(write_text(fs, RestorePath(bak), fs[bak]), TRUE)

RollbackReturn ==
    /\ pc = "rollback"
    /\ k > Len(result_backups)
    /\ IF caller = "run_apr"
       THEN rolled_back' = TRUE /\ pc' = "report"
       ELSE rolled_back' = rolled_back /\ pc' = "done"
    /\ UNCHANGED <<fs, applied, validation, reports, rollback_vars>>
    /\ UNCHANGED <<input_vars, apply_vars>>

----------------------------------------------------------------------------
(* run_apr.main, from the generated patch on *)

EmptyResult ==
    [applied |-> <<>>, rejected |-> <<>>, total_changed |-> 0, backups |-> <<>>]

\* patch.get("changes") is empty: straight to the report
MainNoChanges ==
    /\ pc = "main"
    /\ patch = <<>>
    /\ pc' = "report"
    /\ UNCHANGED <<fs, input_vars, main_vars, apply_vars, rollback_vars>>

MainDryRun ==
    /\ pc = "main"
    /\ patch # <<>>
    /\ dry_run
    /\ applied' = <<EmptyResult>>
    /\ pc' = "validate"
    /\ UNCHANGED <<fs, validation, rolled_back, reports>>
    /\ UNCHANGED <<input_vars, apply_vars, rollback_vars>>

MainApply ==
    /\ pc = "main"
    /\ patch # <<>>
    /\ ~dry_run
    /\ pc' = "apply"
    /\ UNCHANGED <<fs, input_vars, main_vars, apply_vars, rollback_vars>>

\* validator.run_tests reports passed
ValidatePass ==
    /\ pc = "validate"
    /\ validation' = <<TRUE>>
    /\ pc' = "report"
    /\ UNCHANGED <<fs, applied, rolled_back, reports>>
    /\ UNCHANGED <<input_vars, apply_vars, rollback_vars>>

\* validator.run_tests reports failure: rollback unless this is a dry run
ValidateFail ==
    /\ pc = "validate"
    /\ validation' = <<FALSE>>
    /\ IF dry_run
       THEN pc' = "report" /\ UNCHANGED rollback_vars
       ELSE RollbackCall("run_apr")
    /\ UNCHANGED <<fs, applied, rolled_back, reports>>
    /\ UNCHANGED <<input_vars, apply_vars>>

\* reporter.write_report
WriteReport ==
    /\ pc = "report"
    /\ reports' = reports + 1
    /\ pc' = "done"
    /\ UNCHANGED <<fs, applied, validation, rolled_back>>
    /\ UNCHANGED <<input_vars, apply_vars, rollback_vars>>

\* patch_applier.main --rollback, given the apply result of the run
CliRollback ==
    /\ pc = "done"
    /\ applied # <<>>
    /\ calls < MaxRollbackCalls
    /\ RollbackCall("cli")
    /\ UNCHANGED <<fs, input_vars, main_vars, apply_vars>>

----------------------------------------------------------------------------

Init ==
    /\ cfg \in Configs
    /\ patch \in ChangeSets
    /\ dry_run \in BOOLEAN
    /\ fs = InitialDisk
    /\ pc = "main"
    /\ i = 1
    /\ changes_applied = <<>>
    /\ rejected = <<>>
    /\ backups = <<>>
    /\ total_changed = 0
    /\ applied = <<>>
    /\ validation = <<>>
    /\ rolled_back = FALSE
    /\ reports = 0
    /\ caller = "run_apr"
    /\ k = 1
    /\ calls = 0
    /\ fsAtCall = InitialDisk
    /\ faulted = {}

Next ==
    \/ MainNoChanges
    \/ MainDryRun
    \/ MainApply
    \/ ApplyOutsideRoot
    \/ ApplyRejectScope
    \/ ApplyRejectNotFound
    \/ ApplyRejectBudget
    \/ ApplyAccept
    \/ ApplyReturn
    \/ ValidatePass
    \/ ValidateFail
    \/ RollbackSkip
    \/ RollbackRestore
    \/ RollbackReadFails
    \/ RollbackWriteFails
    \/ RollbackUnlinkFails
    \/ RollbackReturn
    \/ WriteReport
    \/ CliRollback

Spec == Init /\ [][Next]_vars

----------------------------------------------------------------------------
(* Claims *)

AppliedPaths == {changes_applied[n].path : n \in 1..Len(changes_applied)}

RejectedPaths == {rejected[n].path : n \in 1..Len(rejected)}

Reasons == {rejected[n].reason : n \in 1..Len(rejected)}

\* a rollback call has run to its end
RollbackOver == calls >= 1 /\ pc # "rollback"

\* C1: after rollback with the returned result (no restore raising), every
\* file listed in applied holds the text it had before apply_changes started
\* and has no backup on disk
C1_RollbackRestoresApplied ==
    (RollbackOver /\ calls = 1 /\ faulted = {}) =>
        \A n \in 1..Len(applied[1].applied) :
            LET f == applied[1].applied[n].path
            IN  /\ exists(fs, f)
                /\ fs[f] = InitialDisk[f]
                /\ ~exists(fs, BackupPath(f))

\* C2: once apply_changes is over, the path of every change is in exactly one
\* of applied and rejected
C2_ExactlyOneOutcome ==
    (~dry_run /\ patch # <<>> /\ pc \notin {"main", "apply"}) =>
        \A j \in 1..Len(patch) :
            LET p == patch[j].path
                inApplied == ~OutsideRoot(p) /\ Rel(p) \in AppliedPaths
                inRejected == ~OutsideRoot(p) /\ Rel(p) \in RejectedPaths
            IN  inApplied # inRejected

\* C3: the running total of changed lines never exceeds max_change_lines,
\* during apply_changes and in the total_changed it returns
C3_BudgetNeverExceeded ==
    /\ total_changed <= cfg.max_change_lines
    /\ applied # <<>> => applied[1].total_changed <= cfg.max_change_lines

C3_Witness ==
    /\ applied # <<>>
    /\ applied[1].total_changed = cfg.max_change_lines
    /\ Len(applied[1].applied) >= 2
    /\ "max_change_lines_exceeded" \in Reasons

\* C4: a change whose path resolves outside the repository root is recorded
\* in rejected as out_of_scope, and apply_changes does not abort
C4_OutsideRootRejected ==
    \A j \in 1..Len(patch) :
        (/\ ~dry_run
         /\ OutsideRoot(patch[j].path)
         /\ (j < i \/ (j = i /\ pc \notin {"main", "apply"}))) =>
            /\ pc # "crashed"
            /\ "out_of_scope" \in Reasons

\* C5: when validation failed and the orchestrator rolled back (no restore
\* raising), every file applied in the run holds its pre-run text before the
\* report is written
C5_FailedValidationRestoresAll ==
    (pc = "report" /\ rolled_back /\ faulted = {}) =>
        \A n \in 1..Len(applied[1].applied) :
            fs[applied[1].applied[n].path] = InitialDisk[applied[1].applied[n].path]

\* C6: a step of apply_changes that rejects a change leaves the disk as it
\* was: no text changed, no file created, no backup written
C6_RejectionTouchesNothing ==
    [][Len(rejected') > Len(rejected) => fs' = fs]_vars

C6_Witness ==
    /\ Reasons = {"out_of_scope", "not_found", "max_change_lines_exceeded"}
    /\ fs = InitialDisk
    /\ applied # <<>>

\* C7: every run that has ended has written exactly one report document
C7_OneReportPerRun ==
    pc \in {"done", "crashed"} => reports = 1

\* C8: a path that matches an exclude pattern is never applied and is
\* rejected as out_of_scope, also when it matches an include pattern; with an
\* empty include list only paths matching an exclude are out of scope
C8_ExcludeWins ==
    /\ \A f \in AppliedPaths : ~MatchesAny(f, cfg.excludes)
    /\ \A j \in 1..(i - 1) :
           MatchesAny(Rel(patch[j].path), cfg.excludes) =>
               \E n \in 1..Len(rejected) :
                   rejected[n] = [path |-> Rel(patch[j].path),
                                  reason |-> "out_of_scope"]
    /\ cfg.file_scopes = <<>> =>
           \A n \in 1..Len(rejected) :
               rejected[n].reason = "out_of_scope" =>
                   MatchesAny(rejected[n].path, cfg.excludes)

C8_Witness ==
    /\ \E n \in 1..Len(rejected) :
           /\ rejected[n].reason = "out_of_scope"
           /\ MatchesAny(rejected[n].path, cfg.excludes)
           /\ MatchesAny(rejected[n].path, cfg.file_scopes)
    /\ applied # <<>>

BackupsConsumed(disk) ==
    \A n \in 1..Len(result_backups) : ~exists(disk, result_backups[n])

\* C9: a later rollback call with the same result, started when every backup
\* of the result is gone, changes nothing on disk and no restore raises
C9_SecondRollbackNoOp ==
    (calls >= 2 /\ BackupsConsumed(fsAtCall)) => (fs = fsAtCall /\ faulted = {})

C9_Witness ==
    /\ calls = 2
    /\ pc = "done"
    /\ Len(result_backups) >= 2
    /\ BackupsConsumed(fsAtCall)
    /\ fs # InitialDisk

\* C10: when a restore raised during a rollback call, every other backup of
\* the result that was present has been restored to its file and deleted,
\* and the call returned
C10_OtherFilesRestored ==
    (RollbackOver /\ faulted # {}) =>
        \A n \in 1..Len(result_backups) :
            (n \notin faulted /\ exists(fsAtCall, result_backups[n])) =>
                LET f == applied[1].applied[n].path
                IN  /\ exists(fs, f)
                    /\ fs[f] = fsAtCall[result_backups[n]]

\* C11: during and after apply_changes (before any rollback), the backup of
\* every mutated file holds the text the file had when the invocation started
C11_BackupHoldsOriginal ==
    calls = 0 =>
        \A f \in AppliedPaths :
            /\ exists(fs, BackupPath(f))
            /\ fs[BackupPath(f)] = InitialDisk[f]

\* the last entry of rejected was added by this step for the budget
BudgetRejection(before, after) ==
    /\ Len(after) = Len(before) + 1
    /\ after[Len(after)].reason = "max_change_lines_exceeded"

\* the change the loop is at is in scope, exists and fits the remaining budget
ChangeFits ==
    /\ InLoop
    /\ ~OutsideRoot(change.path)
    /\ within_scope(rel, cfg)
    /\ exists(fs, rel)
    /\ total_changed + count_change_lines(fs[rel], change.content)
           <= cfg.max_change_lines

\* C12: a step that rejects a change for the budget leaves the running total,
\* the applied list, the backups and the disk as they were; and after such a
\* rejection a change that fits the remaining budget is still applied
C12_RejectionConsumesNoBudget ==
    [][/\ BudgetRejection(rejected, rejected') =>
              /\ total_changed' = total_changed
              /\ changes_applied' = changes_applied
              /\ backups' = backups
              /\ fs' = fs
       /\ ("max_change_lines_exceeded" \in Reasons /\ ChangeFits) =>
              /\ changes_applied' =
                     Append(changes_applied,
                            [path |-> rel,
                             changed_lines |->
                                 count_change_lines(fs[rel], change.content)])
              /\ total_changed' =
                     total_changed + count_change_lines(fs[rel], change.content)
              /\ fs'[rel] = change.content]_vars

\* B/y.s applied, A/x.s turned away for the budget, then A/x.s applied at no cost
C12_Witness ==
    /\ pc = "validate"
    /\ Len(patch) = 3
    /\ patch[1].path = PathBy
    /\ patch[2] = [path |-> PathAx, content |-> <<"b", "a">>]
    /\ patch[3] = [path |-> PathAx, content |-> <<"a", "b">>]
    /\ changes_applied = <<[path |-> PathBy, changed_lines |-> 1],
                           [path |-> PathAx, changed_lines |-> 0]>>
    /\ rejected = <<[path |-> PathAx, reason |-> "max_change_lines_exceeded"]>>
    /\ total_changed = 1

====
